---- MODULE Spec2Model ----
(***************************************************************************)
(* Release-notes tooling of the repository's .github/scripts:              *)
(*   release-notes.py     extract / clean / parse / validate / aggregate   *)
(*   update-changelog.py  insertion of a version section into CHANGELOG.md *)
(*                                                                         *)
(* Text is a sequence of symbols.  Punctuation, blanks, line breaks and    *)
(* digits are single characters ("#", "-", " ", "\n", "1"); a word that    *)
(* the code only ever compares as a whole ("Fixed", "Release") is one      *)
(* symbol.  Offsets are counted in symbols.                                *)
(***************************************************************************)
EXTENDS Integers, Sequences, FiniteSets, TLC

VARIABLES
    \* parse_release_notes
    notes,              \* its argument `content`
    lines,              \* cleaned.split('\n')
    lineno,             \* the line the for loop is at (1-based)
    current_category,
    categories,
    \* update-changelog.py
    changelog,          \* the text of the file at changelog_path
    ncalls,             \* runs of the script so far
    last_run,           \* the last run: its arguments, the file before it, its outcome
    exit_code,          \* the exit status of the last run
    init_descending,    \* history: the first file's versions below Unreleased descend
    \* format_changelog_from_prs
    prs,                \* the PR records the loop has been through, in order
    all_categories,
    fmt_pc,             \* "collect" while in the loop over prs, then "done"
    changelog_text,     \* the returned text
    \* the attribution step of format_changelog_from_prs, applied again and again
    at_raw,             \* the entry text before the first application
    at_entry,           \* the entry text now
    at_pr,              \* the PR record it is an entry of
    at_count,           \* applications so far
    \* validate_release_notes
    val_body,
    val_pc,             \* "start" before the call, "done" after it
    result,             \* the returned (is_valid, message, parsed_categories)
    \* clean_content and is_opt_out on one content
    cl_content,         \* the content given
    cl_once,            \* clean_content(content)
    cl_twice,           \* clean_content of that
    cl_opt_out,         \* what is_opt_out(content) returned
    cl_pc               \* "start", then "cleaned", "recleaned", or "opted"

parseVars == <<notes, lines, lineno, current_category, categories>>

clogVars == <<changelog, ncalls, last_run, exit_code, init_descending>>

fmtVars == <<prs, all_categories, fmt_pc, changelog_text>>

attrVars == <<at_raw, at_entry, at_pr, at_count>>

valVars == <<val_body, val_pc, result>>

cleanVars == <<cl_content, cl_once, cl_twice, cl_opt_out, cl_pc>>

vars == <<parseVars, clogVars, fmtVars, attrVars, valVars, cleanVars>>

NL == "\n"

\* What str.strip() removes and the regex class \s matches.
WS == {" ", NL}

None == <<>>

Some(x) == <<x>>

-----------------------------------------------------------------------------
(* str and re primitives *)

RECURSIVE LStrip(_)
LStrip(s) ==
    IF s # <<>> /\ Head(s) \in WS THEN LStrip(Tail(s)) ELSE s

RECURSIVE RStrip(_)
RStrip(s) ==
    IF s # <<>> /\ s[Len(s)] \in WS THEN RStrip(SubSeq(s, 1, Len(s) - 1)) ELSE s

Strip(s) == RStrip(LStrip(s))

\* s[i:] starts with p (i is 1-based)
StartsWithAt(s, i, p) ==
    /\ i >= 1
    /\ i + Len(p) - 1 <= Len(s)
    /\ \A k \in 1..Len(p) : s[i + k - 1] = p[k]

\* the least offset >= from at which p occurs in s, 0 when there is none
FindFrom(s, p, from) ==
    LET hits == {i \in from..Len(s) : StartsWithAt(s, i, p)}
    IN  IF hits = {} THEN 0 ELSE CHOOSE i \in hits : \A j \in hits : i <= j

\* Python's `t in s`
Contains(s, t) == FindFrom(s, t, 1) # 0

RECURSIVE Split(_, _)
Split(s, c) ==
    LET i == FindFrom(s, <<c>>, 1)
    IN  IF i = 0 THEN <<s>>
        ELSE <<SubSeq(s, 1, i - 1)>> \o Split(SubSeq(s, i + 1, Len(s)), c)

RECURSIVE Join(_, _)
Join(ss, sep) ==
    IF ss = <<>> THEN <<>>
    ELSE IF Len(ss) = 1 THEN ss[1]
    ELSE ss[1] \o sep \o Join(Tail(ss), sep)

\* the last offset of the run of whitespace that starts at i (i - 1 when
\* s[i] is no whitespace)
RECURSIVE WsRunEnd(_, _)
WsRunEnd(s, i) ==
    IF i <= Len(s) /\ s[i] \in WS THEN WsRunEnd(s, i + 1) ELSE i - 1

DIGITS == <<"0", "1", "2", "3", "4", "5", "6", "7", "8", "9">>

IsDigit(c) == \E i \in 1..Len(DIGITS) : DIGITS[i] = c

DigitValue(c) == (CHOOSE i \in 1..Len(DIGITS) : DIGITS[i] = c) - 1

-----------------------------------------------------------------------------
(* release-notes.py: clean_content *)

COMMENT_OPEN == <<"<", "!", "-", "-">>

COMMENT_CLOSE == <<"-", "-", ">">>

\* re.sub(r'<!--.*?-->', '', content, flags=re.DOTALL)
RECURSIVE RemoveComments(_)
RemoveComments(s) ==
    IF s = <<>> THEN <<>>
    ELSE LET close == IF StartsWithAt(s, 1, COMMENT_OPEN)
                      THEN FindFrom(s, COMMENT_CLOSE, Len(COMMENT_OPEN) + 1)
                      ELSE 0
         IN  IF close # 0
             THEN RemoveComments(SubSeq(s, close + Len(COMMENT_CLOSE), Len(s)))
             ELSE <<Head(s)>> \o RemoveComments(Tail(s))

\* '\n'.join(line.strip() for line in content.split('\n'))
StripLines(s) ==
    LET ls == Split(s, NL)
    IN  Join([i \in 1..Len(ls) |-> Strip(ls[i])], <<NL>>)

\* re.sub(r'\n\s*\n', '\n', content)
RECURSIVE CollapseNewlines(_)
CollapseNewlines(s) ==
    IF s = <<>> THEN <<>>
    ELSE IF Head(s) = NL
         THEN LET run  == WsRunEnd(s, 2)
                  nls  == {k \in 2..run : s[k] = NL}
                  last == IF nls = {} THEN 0
                          ELSE CHOOSE k \in nls : \A j \in nls : j <= k
              IN  IF last # 0
                  THEN <<NL>> \o CollapseNewlines(SubSeq(s, last + 1, Len(s)))
                  ELSE <<NL>> \o CollapseNewlines(Tail(s))
         ELSE <<Head(s)>> \o CollapseNewlines(Tail(s))

clean_content(content) ==
    Strip(CollapseNewlines(StripLines(RemoveComments(content))))

-----------------------------------------------------------------------------
(* release-notes.py: parse_release_notes *)

VALID_CATEGORIES == <<"Added", "Changed", "Deprecated", "Removed", "Fixed", "Security">>

ValidSet == {VALID_CATEGORIES[i] : i \in 1..Len(VALID_CATEGORIES)}

\* A Python dict from category to list of entries: the keys in insertion
\* order, and the list of each key.
EmptyDict == [keys |-> <<>>, vals |-> [c \in ValidSet |-> <<>>]]

HasKey(d, c) == \E i \in 1..Len(d.keys) : d.keys[i] = c

DictEnsure(d, c) ==
    IF HasKey(d, c) THEN d ELSE [d EXCEPT !.keys = Append(@, c)]

DictAppend(d, c, e) == [d EXCEPT !.vals[c] = Append(@, e)]

\* re.match(r'^###\s+(.+)$', line) on a stripped line
IsCategoryHeading(line) ==
    /\ Len(line) >= 5
    /\ SubSeq(line, 1, 3) = <<"#", "#", "#">>
    /\ line[4] \in WS
    /\ \A i \in 5..Len(line) : line[i] # NL

\* category_match.group(1).strip()
HeadingText(line) == Strip(SubSeq(line, 5, Len(line)))

\* category in VALID_CATEGORIES
IsValidCategory(category) == Len(category) = 1 /\ category[1] \in ValidSet

\* line.startswith('-') or line.startswith('*')
IsListItem(line) == line # <<>> /\ Head(line) \in {"-", "*"}

\* the body of the for loop: st is (current_category, categories)
ParseLineNoReset(st, raw) ==
    LET line == Strip(raw)
    IN  IF line = <<>> THEN st
        ELSE IF IsCategoryHeading(line)
             THEN LET category == HeadingText(line)
                  IN  IF IsValidCategory(category)
                      THEN [cur |-> Some(category[1]),
                            dict |-> DictEnsure(st.dict, category[1])]
                      ELSE st
        ELSE IF IsListItem(line) /\ st.cur # None /\ Strip(Tail(line)) # <<>>
             THEN [st EXCEPT !.dict = DictAppend(@, st.cur[1], Strip(Tail(line)))]
        ELSE st

ParseLine(st, raw) ==
    LET line == Strip(raw)
    IN  IF line = <<>> THEN st
        ELSE IF IsCategoryHeading(line)
             THEN LET category == HeadingText(line)
                  IN  IF IsValidCategory(category)
                      THEN [cur |-> Some(category[1]),
                            dict |-> DictEnsure(st.dict, category[1])]
                      ELSE [cur |-> None, dict |-> st.dict]
        ELSE IF IsListItem(line) /\ st.cur # None /\ Strip(Tail(line)) # <<>>
             THEN [st EXCEPT !.dict = DictAppend(@, st.cur[1], Strip(Tail(line)))]
        ELSE st

ParseStart == [cur |-> None, dict |-> EmptyDict]

RECURSIVE ParseLines(_, _)
ParseLines(st, ls) ==
    IF ls = <<>> THEN st ELSE ParseLines(ParseLine(st, Head(ls)), Tail(ls))

parse_release_notes(content) ==
    ParseLines(ParseStart, Split(clean_content(content), NL)).dict

-----------------------------------------------------------------------------
(* release-notes.py: extract_release_notes_section, is_opt_out *)

\* the words re.IGNORECASE lets 'Release' and 'Notes' match
RELEASE_WORDS == {"Release", "release", "RELEASE"}

NOTES_WORDS == {"Notes", "notes", "NOTES"}

\* (?m)^
IsLineStart(s, i) == i = 1 \/ (i - 1 <= Len(s) /\ s[i - 1] = NL)

\* ^##\s+Release\s+Notes\s+ matched at offset i: the offset after it (where
\* group 1 starts), 0 when it does not match there
SectionStartAt(s, i) ==
    IF ~(IsLineStart(s, i) /\ StartsWithAt(s, i, <<"#", "#">>)) THEN 0
    ELSE LET e1 == WsRunEnd(s, i + 2)
         IN  IF ~(e1 >= i + 2 /\ e1 + 1 <= Len(s) /\ s[e1 + 1] \in RELEASE_WORDS) THEN 0
             ELSE LET e2 == WsRunEnd(s, e1 + 2)
                  IN  IF ~(e2 >= e1 + 2 /\ e2 + 1 <= Len(s) /\ s[e2 + 1] \in NOTES_WORDS)
                      THEN 0
                      ELSE LET e3 == WsRunEnd(s, e2 + 2)
                           IN  IF e3 >= e2 + 2 THEN e3 + 1 ELSE 0

\* a lookahead that takes a level-2 heading only after a blank line
SectionEndsAtBlankLine(s, p) ==
    \/ p = Len(s) + 1
    \/ /\ p >= 3 /\ s[p - 1] = NL /\ s[p - 2] = NL
       /\ StartsWithAt(s, p, <<"#", "#">>)
       /\ p + 2 <= Len(s)
       /\ s[p + 2] \in WS

\* (?=^##\s|\Z) at offset p
SectionEndsAt(s, p) ==
    \/ p = Len(s) + 1
    \/ /\ IsLineStart(s, p)
       /\ StartsWithAt(s, p, <<"#", "#">>)
       /\ p + 2 <= Len(s)
       /\ s[p + 2] \in WS

\* None, or the stripped group 1 of the first match
extract_release_notes_section(pr_body) ==
    LET hits == {i \in 1..Len(pr_body) : SectionStartAt(pr_body, i) # 0}
    IN  IF pr_body = <<>> \/ hits = {} THEN None
        ELSE LET i    == CHOOSE h \in hits : \A j \in hits : h <= j
                 from == SectionStartAt(pr_body, i)
                 to   == CHOOSE p \in from..(Len(pr_body) + 1) :
                             /\ SectionEndsAt(pr_body, p)
                             /\ \A q \in from..(p - 1) : ~SectionEndsAt(pr_body, q)
             IN  Some(Strip(SubSeq(pr_body, from, to - 1)))

\* the spellings of the opt-out token that upper() maps to 'NONE'
NONE_WORDS == {"NONE", "none", "NoNe"}

\* str.upper(), on the words that matter to the comparison with 'NONE'
Upper(s) == [i \in 1..Len(s) |-> IF s[i] \in NONE_WORDS THEN "NONE" ELSE s[i]]

\* a test for the word anywhere in the cleaned content
is_opt_out_substring(content) ==
    \E i \in 1..Len(clean_content(content)) : Upper(clean_content(content))[i] = "NONE"

is_opt_out(content) == Upper(clean_content(content)) = <<"NONE">>

-----------------------------------------------------------------------------
(* release-notes.py: validate_release_notes *)

MSG_NOT_FOUND == <<"Release Notes section not found in PR description">>

MSG_OPT_OUT == <<"Release notes opted out (NONE)">>

MSG_NO_CATEGORY ==
    <<"Release notes must contain at least one valid category (Added, Changed, Deprecated, Removed, Fixed, Security) with entries, or 'NONE' to opt out">>

MSG_VALID == <<"Release notes are valid">>

\* f"Categories {', '.join(empty_categories)} have no entries"
EmptyMessage(empty_categories) ==
    <<"Categories", " ">>
        \o Join([k \in 1..Len(empty_categories) |-> <<empty_categories[k]>>], <<",", " ">>)
        \o <<" ", "have no entries">>

\* the list comprehension that stops at the first empty category
EmptyCategoriesFirstOnly(cats) ==
    LET empty == SelectSeq(cats.keys, LAMBDA cat : cats.vals[cat] = <<>>)
    IN  IF empty = <<>> THEN <<>> ELSE <<empty[1]>>

\* [cat for cat, entries in categories.items() if not entries]
EmptyCategories(cats) == SelectSeq(cats.keys, LAMBDA cat : cats.vals[cat] = <<>>)

\* the validator without the check for empty categories
validate_skip_empty_check(body) ==
    LET release_notes == extract_release_notes_section(body)
    IN  IF release_notes = None
        THEN [valid |-> FALSE, message |-> MSG_NOT_FOUND, categories |-> None]
        ELSE IF is_opt_out(release_notes[1])
        THEN [valid |-> TRUE, message |-> MSG_OPT_OUT, categories |-> None]
        ELSE LET cats == parse_release_notes(release_notes[1])
             IN  IF cats.keys = <<>>
                 THEN [valid |-> FALSE, message |-> MSG_NO_CATEGORY, categories |-> None]
                 ELSE [valid |-> TRUE, message |-> MSG_VALID, categories |-> Some(cats)]

validate_release_notes(body) ==
    LET release_notes == extract_release_notes_section(body)
    IN  IF release_notes = None
        THEN [valid |-> FALSE, message |-> MSG_NOT_FOUND, categories |-> None]
        ELSE IF is_opt_out(release_notes[1])
        THEN [valid |-> TRUE, message |-> MSG_OPT_OUT, categories |-> None]
        ELSE LET cats == parse_release_notes(release_notes[1])
             IN  IF cats.keys = <<>>
                 THEN [valid |-> FALSE, message |-> MSG_NO_CATEGORY, categories |-> None]
                 ELSE IF EmptyCategories(cats) # <<>>
                 THEN [valid |-> FALSE, message |-> EmptyMessage(EmptyCategories(cats)),
                       categories |-> None]
                 ELSE [valid |-> TRUE, message |-> MSG_VALID, categories |-> Some(cats)]

-----------------------------------------------------------------------------
(* release-notes.py: format_changelog_from_prs *)

\* str(n) for n >= 0
RECURSIVE StrOfInt(_)
StrOfInt(n) ==
    IF n < 10 THEN <<DIGITS[n + 1]>> ELSE StrOfInt(n \div 10) \o <<DIGITS[(n % 10) + 1]>>

\* "#{pr_number}"
NumberToken(pr) == <<"#">> \o StrOfInt(pr.number)

\* " [#{pr_number}]({pr_url}) [{author}]({author_url})"
Attribution(pr) ==
    <<" ", "[">> \o NumberToken(pr) \o <<"]", "(">> \o pr.url \o <<")", " ", "[">>
        \o pr.author \o <<"]", "(">> \o pr.author_url \o <<")">>

\* the attribution step without its test: the suffix is always appended
FormatEntryAlways(entry, pr) == entry \o Attribution(pr)

\* the attribution step that never attributes
FormatEntryNever(entry, pr) == entry

\* formatted_entry
FormatEntry(entry, pr) ==
    IF ~Contains(entry, NumberToken(pr)) /\ ~Contains(entry, pr.url)
    THEN entry \o Attribution(pr)
    ELSE entry

InList(list, x) == \E i \in 1..Len(list) : list[i] = x

\* the loop over the entries without the duplicate check
CollectEntriesNoDedup(list, entries, pr) ==
    list \o [k \in 1..Len(entries) |-> FormatEntry(entries[k], pr)]

\* the loop over the entries of one category
RECURSIVE CollectEntries(_, _, _)
CollectEntries(list, entries, pr) ==
    IF entries = <<>> THEN list
    ELSE LET formatted_entry == FormatEntry(Head(entries), pr)
         IN  CollectEntries(IF InList(list, formatted_entry) THEN list
                            ELSE Append(list, formatted_entry),
                            Tail(entries), pr)

\* the loop over categories.items(), from the k-th key on
RECURSIVE CollectCategories(_, _, _, _)
CollectCategories(all, cats, k, pr) ==
    IF k > Len(cats.keys) THEN all
    ELSE LET category == cats.keys[k]
             ensured  == DictEnsure(all, category)
         IN  CollectCategories(
                 [ensured EXCEPT !.vals[category] =
                      CollectEntries(@, cats.vals[category], pr)],
                 cats, k + 1, pr)

\* release_notes is None or is_opt_out(release_notes)
IsSkipped(pr) ==
    IF extract_release_notes_section(pr.body) = None THEN TRUE
    ELSE is_opt_out(extract_release_notes_section(pr.body)[1])

\* all_categories after the loop body for one PR record
CollectPR(all, pr) ==
    IF IsSkipped(pr) THEN all
    ELSE CollectCategories(all, parse_release_notes(extract_release_notes_section(pr.body)[1]),
                           1, pr)

category_order == <<"Added", "Changed", "Deprecated", "Removed", "Fixed", "Security">>

\* the categories the rendering loop goes through, in insertion order of
\* all_categories instead of category_order
RenderOrderAsCollected(all) == all.keys

RenderOrder(all) == category_order

\* changelog_lines of the categories from the k-th of order on
RECURSIVE RenderLines(_, _, _)
RenderLines(all, order, k) ==
    IF k > Len(order) THEN <<>>
    ELSE LET category == order[k]
             rest == RenderLines(all, order, k + 1)
         IN  IF HasKey(all, category) /\ all.vals[category] # <<>>
             THEN <<<<"#", "#", "#", " ", category>>>>
                  \o [i \in 1..Len(all.vals[category]) |-> <<"-", " ">> \o all.vals[category][i]]
                  \o <<<<>>>> \o rest
             ELSE rest

\* '\n'.join(changelog_lines).strip()
Render(all) == Strip(Join(RenderLines(all, RenderOrder(all), 1), <<NL>>))

-----------------------------------------------------------------------------
(* update-changelog.py: packaging.version.Version restricted to release     *)
(* segments, N(.N)* of decimal digits; anything else does not parse         *)

RECURSIVE IntOf(_)
IntOf(ds) ==
    IF ds = <<>> THEN 0
    ELSE 10 * IntOf(SubSeq(ds, 1, Len(ds) - 1)) + DigitValue(ds[Len(ds)])

\* str.lstrip('v')
RECURSIVE LStripV(_)
LStripV(s) == IF s # <<>> /\ Head(s) = "v" THEN LStripV(Tail(s)) ELSE s

RECURSIVE StripTrailingZeros(_)
StripTrailingZeros(r) ==
    IF r # <<>> /\ r[Len(r)] = 0 THEN StripTrailingZeros(SubSeq(r, 1, Len(r) - 1))
    ELSE r

\* Version(s): None for InvalidVersion, else the release with its trailing
\* zeros dropped (the comparison key of packaging: 1.0 == 1.0.0)
Version(s) ==
    LET parts == Split(Strip(s), ".")
        ok    == \A i \in 1..Len(parts) :
                     /\ parts[i] # <<>>
                     /\ \A j \in 1..Len(parts[i]) : IsDigit(parts[i][j])
    IN  IF ok THEN Some(StripTrailingZeros([i \in 1..Len(parts) |-> IntOf(parts[i])]))
        ELSE None

\* a < b on release keys (Python's tuple order)
ReleaseLess(a, b) ==
    \E i \in 1..(Len(b)) :
        /\ \A j \in 1..(i - 1) : j <= Len(a) /\ a[j] = b[j]
        /\ (i > Len(a) \/ a[i] < b[i])

-----------------------------------------------------------------------------
(* update-changelog.py: update_changelog *)

HEADER_OPEN == <<"#", "#", " ", "[">>

HEADER_MID == <<"]", " ", "-", " ">>

UNRELEASED == <<"#", "#", " ", "[", "Unreleased", "]">>

\* \d{4}-\d{2}-\d{2} at offset i
IsDateAt(s, i) ==
    /\ i + 9 <= Len(s)
    /\ \A k \in {0, 1, 2, 3, 5, 6, 8, 9} : IsDigit(s[i + k])
    /\ s[i + 4] = "-" /\ s[i + 7] = "-"

\* r'## \[([^\]]+)\] - \d{4}-\d{2}-\d{2}' at offset i: the offset of the
\* closing bracket, 0 when the pattern does not match there
HeaderCloseAt(s, i) ==
    IF ~StartsWithAt(s, i, HEADER_OPEN) THEN 0
    ELSE LET close == FindFrom(s, <<"]">>, i + Len(HEADER_OPEN))
         IN  IF /\ close > i + Len(HEADER_OPEN)
                /\ StartsWithAt(s, close, HEADER_MID)
                /\ IsDateAt(s, close + Len(HEADER_MID))
             THEN close ELSE 0

\* list(re.finditer(version_pattern, content)) from offset i on: of each
\* match, start (0-based, as match.start()) and group(1)
RECURSIVE VersionMatches(_, _)
VersionMatches(s, i) ==
    IF i > Len(s) THEN <<>>
    ELSE LET close == HeaderCloseAt(s, i)
         IN  IF close # 0
             THEN <<[start |-> i - 1,
                     group |-> SubSeq(s, i + Len(HEADER_OPEN), close - 1)]>>
                  \o VersionMatches(s, close + Len(HEADER_MID) + 10)
             ELSE VersionMatches(s, i + 1)

\* the end of r'## \[Unreleased\]\s*\n' matched at offset i, 0 when it does
\* not match there
UnreleasedEndAt(s, i) ==
    IF ~StartsWithAt(s, i, UNRELEASED) THEN 0
    ELSE LET from == i + Len(UNRELEASED)
             nls  == {k \in from..WsRunEnd(s, from) : s[k] = NL}
         IN  IF nls = {} THEN 0 ELSE CHOOSE k \in nls : \A j \in nls : j <= k

\* re.search(r'## \[Unreleased\]\s*\n', content): None, or the match's end()
UnreleasedMatch(s) ==
    LET hits == {i \in 1..Len(s) : UnreleasedEndAt(s, i) # 0}
    IN  IF hits = {} THEN None
        ELSE Some(UnreleasedEndAt(s, CHOOSE i \in hits : \A j \in hits : i <= j))

SearchStart(content) ==
    IF UnreleasedMatch(content) # None THEN UnreleasedMatch(content)[1] ELSE 0

NewSection(version, date, entries) ==
    HEADER_OPEN \o version \o HEADER_MID \o date \o <<NL, NL>> \o Strip(entries) \o <<NL, NL>>

\* the for loop without its break: the last match below the new version
ScanMatchesNoBreak(matches, k, search_start, new_version_obj) ==
    LET hits == {j \in k..Len(matches) :
                    /\ matches[j].start >= search_start
                    /\ Version(LStripV(matches[j].group)) # None
                    /\ \E i \in 1..Len(new_version_obj) :
                           LET e == Version(LStripV(matches[j].group))[1]
                           IN  /\ \A h \in 1..(i - 1) : h <= Len(e) /\ e[h] = new_version_obj[h]
                               /\ (i > Len(e) \/ e[i] < new_version_obj[i])}
    IN  IF hits = {} THEN 0 ELSE CHOOSE j \in hits : \A h \in hits : h <= j

\* the for loop over matches from the k-th on: the index of the match the
\* loop breaks at, 0 when it runs to the end
RECURSIVE ScanMatches(_, _, _, _)
ScanMatches(matches, k, search_start, new_version_obj) ==
    IF k > Len(matches) THEN 0
    ELSE IF matches[k].start < search_start
         THEN ScanMatches(matches, k + 1, search_start, new_version_obj)
    ELSE LET existing_version_obj == Version(LStripV(matches[k].group))
         IN  IF /\ existing_version_obj # None
                /\ ReleaseLess(existing_version_obj[1], new_version_obj)
             THEN k
             ELSE ScanMatches(matches, k + 1, search_start, new_version_obj)

Splice(content, at, text) ==
    SubSeq(content, 1, at) \o text \o SubSeq(content, at + 1, Len(content))

\* Lines 52-87, reached once the new version has parsed: the file's content
\* after the call, the offset the new text is spliced at (insert_position),
\* the offset its header lands at, and the index of the match the loop broke
\* at (0: none).
InsertSection(content, version, date, entries, new_version_obj) ==
    LET new_section      == NewSection(version, date, entries)
        matches          == VersionMatches(content, 1)
        unreleased_match == UnreleasedMatch(content)
        search_start     == IF unreleased_match # None THEN unreleased_match[1] ELSE 0
        k                == ScanMatches(matches, 1, search_start, new_version_obj)
    IN  IF k # 0
        THEN [raised |-> FALSE,
              content |-> Splice(content, matches[k].start, new_section),
              pos |-> matches[k].start, header_at |-> matches[k].start,
              anchor |-> k]
        ELSE IF unreleased_match # None
        THEN LET at == unreleased_match[1]
             IN  IF at + 1 > Len(content) \/ content[at + 1] # NL
                 THEN [raised |-> FALSE,
                       content |-> Splice(content, at, <<NL>> \o new_section),
                       pos |-> at, header_at |-> at + 1, anchor |-> 0]
                 ELSE [raised |-> FALSE,
                       content |-> Splice(content, at, new_section),
                       pos |-> at, header_at |-> at, anchor |-> 0]
        ELSE [raised |-> FALSE, content |-> new_section \o content,
              pos |-> 0, header_at |-> 0, anchor |-> 0]

\* update_changelog with an unparseable new version ordered below every
\* version instead of raising
update_changelog_no_raise(content, version, date, entries) ==
    LET new_version_obj == Version(LStripV(version))
    IN  InsertSection(content, version, date, entries,
                      IF new_version_obj = None THEN <<>> ELSE new_version_obj[1])

\* The call: Version(version.lstrip('v')) raises before anything is written.
update_changelog(content, version, date, entries) ==
    LET new_version_obj == Version(LStripV(version))
    IN  IF new_version_obj = None
        THEN [raised |-> TRUE, content |-> content, pos |-> -1, header_at |-> -1,
              anchor |-> 0]
        ELSE InsertSection(content, version, date, entries, new_version_obj[1])

\* main: sys.exit(1) when update_changelog raised
main_exit(r) == IF r.raised THEN 1 ELSE 0

-----------------------------------------------------------------------------
(* the inputs the runs draw from *)

MaxLines == 4

H_Fixed == <<"#", "#", "#", " ", "Fixed">>

H_Added == <<"#", "#", "#", " ", "Added">>

H_Bogus == <<"#", "#", "#", " ", "Bogus">>

B_a == <<"-", " ", "a">>

B_b == <<"*", " ", "b">>

B_empty == <<"-">>

ParseFragments == {H_Fixed, H_Added, H_Bogus, B_a, B_b, B_empty}

\* every text of at most n lines drawn from F, each line ended by a line break
RECURSIVE TextsOf(_, _)
TextsOf(F, n) ==
    IF n = 0 THEN {<<>>}
    ELSE LET shorter == TextsOf(F, n - 1)
         IN  shorter \cup {t \o f \o <<NL>> : t \in shorter, f \in F}

MaxPRs == 2

RN_HEADING == <<"#", "#", " ", "Release", " ", "Notes", NL>>

B_bug == <<"-", " ", "bug">>

B_feat == <<"-", " ", "feat">>

\* an entry that names PR 12, and so holds the text "#1" as well
B_bug12 == <<"-", " ", "bug", " ", "#", "1", "2">>

Body_Fixed == RN_HEADING \o H_Fixed \o <<NL>> \o B_bug \o <<NL>>

Body_FixedAdded ==
    RN_HEADING \o H_Fixed \o <<NL>> \o B_bug \o <<NL>> \o H_Added \o <<NL>> \o B_feat \o <<NL>>

Body_Mention == RN_HEADING \o H_Fixed \o <<NL>> \o B_bug12 \o <<NL>>

\* an entry that names PR 1 and PR 2
B_see == <<"-", " ", "see", " ", "#", "1", " ", "#", "2">>

Body_Both == RN_HEADING \o H_Fixed \o <<NL>> \o B_see \o <<NL>>

Body_Twice == RN_HEADING \o H_Fixed \o <<NL>> \o B_bug \o <<NL>> \o B_bug \o <<NL>>

Body_EmptyCategory == RN_HEADING \o H_Fixed \o <<NL>>

Body_OptOut == RN_HEADING \o <<"NONE", NL>>

Body_NoSection == <<"text", NL>>

FormatBodies ==
    {Body_Fixed, Body_FixedAdded, Body_Mention, Body_Both, Body_Twice, Body_EmptyCategory,
     Body_OptOut, Body_NoSection}

PRNumbers == {1, 2, 12}

AuthorOf(n) == IF n = 2 THEN "bo" ELSE "al"

MakePR(n, body) ==
    [number |-> n, url |-> <<"u", "/">> \o StrOfInt(n), author |-> <<AuthorOf(n)>>,
     author_url |-> <<"h", "/", AuthorOf(n)>>, body |-> body]

FormatPRs == {MakePR(n, body) : n \in PRNumbers, body \in FormatBodies}

MaxNoteLines == 3

C_x == <<"<", "!", "-", "-", " ", "x", " ", "-", "-", ">">>

\* a bullet with whitespace around its text
B_spaced == <<"*", " ", " ", "a", " ">>

ValidateFragments == {H_Fixed, H_Added, H_Bogus, B_a, B_spaced, B_empty, <<"NONE">>, C_x}

\* what follows the section: nothing, or another level-2 section
OTHER_SECTION == <<"#", "#", " ", "Other", NL, "-", " ", "b", NL>>

\* the heading as the last line of the body, without a line break after it
RN_AT_EOF == <<"#", "#", " ", "Release", " ", "Notes">>

rn_heading_lower == <<"#", "#", " ", "release", " ", "notes", NL>>

ValidateBodies ==
    {RN_HEADING \o t \o tail :
        t \in TextsOf(ValidateFragments, MaxNoteLines), tail \in {<<>>, OTHER_SECTION}}
    \cup {rn_heading_lower \o t : t \in TextsOf(ValidateFragments, 1)}
    \cup TextsOf(ValidateFragments, 1)
    \cup {OTHER_SECTION}
    \cup {pre \o RN_AT_EOF : pre \in {<<>>, OTHER_SECTION}}
    \cup {OTHER_SECTION \o RN_HEADING \o t : t \in TextsOf(ValidateFragments, 1)}
    \cup {<<"x", " ">> \o RN_HEADING \o B_a \o <<NL>>}
    \cup {RN_HEADING \o t \o <<" ">> \o OTHER_SECTION : t \in TextsOf({B_a}, 1)}

\* pieces of which the contents given to clean_content are made: parts of
\* comment markers, a whole comment, whitespace, the opt-out word, a heading
CleanPieces ==
    {<<"<", "!">>, <<"-", "-">>, C_x, COMMENT_CLOSE, <<" ">>, <<NL>>, <<"NONE">>, <<"none">>,
     H_Fixed}

CleanContents ==
    {a \o b \o c \o d :
        a \in CleanPieces \cup {<<>>}, b \in CleanPieces \cup {<<>>},
        c \in CleanPieces \cup {<<>>}, d \in CleanPieces \cup {<<>>}}

MaxApply == 2

AttrPRs == {MakePR(n, <<>>) : n \in PRNumbers}

AttrEntries ==
    {<<"bug">>, <<"feat">>, <<"bug", " ", "#", "2">>, <<"bug", " ", "#", "1">>, <<"bug", " ", "#", "1", "2">>, <<"#", "2">>,
     <<"bug", " ", "u", "/", "1">>, <<"see", " ", "u", "/", "2">>, <<"u", "/", "1", "2">>}
    \cup {<<"bug">> \o Attribution(pr) : pr \in AttrPRs}

MaxUpdates == 2

DATE == <<"2", "0", "2", "4", "-", "0", "1", "-", "0", "1">>

ENTRIES == <<"-", " ", "x", NL>>

v0_5_0 == <<"v", "0", ".", "5", ".", "0">>

v0_9_0 == <<"v", "0", ".", "9", ".", "0">>

v1_0_0 == <<"v", "1", ".", "0", ".", "0">>

bare_1_0 == <<"1", ".", "0">>

v1_2_0 == <<"v", "1", ".", "2", ".", "0">>

v1_10_0 == <<"v", "1", ".", "1", "0", ".", "0">>

v2_0_0 == <<"v", "2", ".", "0", ".", "0">>

latest == <<"latest">>

NewVersions == {v0_9_0, bare_1_0, v1_2_0, v1_10_0, latest}

TITLE == <<"#", " ", "Changelog", NL, NL>>

RECURSIVE Sections(_)
Sections(vs) ==
    IF vs = <<>> THEN <<>> ELSE NewSection(Head(vs), DATE, ENTRIES) \o Sections(Tail(vs))

InitVersionLists ==
    {<<>>, <<v2_0_0, v1_0_0>>, <<v1_10_0, v1_2_0>>, <<v2_0_0, latest, v0_5_0>>}

\* what stands above the Unreleased heading: the title, or the title and a
\* released section that was left above the heading
InitTops == {TITLE, TITLE \o NewSection(v0_5_0, DATE, ENTRIES)}

\* the Unreleased heading, absent or with the line breaks that follow it
InitUnreleased == {<<>>, UNRELEASED \o <<NL>>, UNRELEASED \o <<NL, NL>>}

\* the last document kind: the file ends with the heading, no line break
InitDocs ==
    {top \o u \o Sections(vs) : top \in InitTops, u \in InitUnreleased, vs \in InitVersionLists}
    \cup {top \o UNRELEASED : top \in InitTops}

NoCall ==
    [version |-> <<>>, before |-> <<>>, raised |-> FALSE, pos |-> -1,
     header_at |-> -1, anchor |-> 0]

-----------------------------------------------------------------------------
(* the parts of the state a specification does not use *)

NoPR == [number |-> 0, url |-> <<>>, author |-> <<>>, author_url |-> <<>>, body |-> <<>>]

FmtIdle ==
    /\ prs = <<>>
    /\ all_categories = EmptyDict
    /\ fmt_pc = "idle"
    /\ changelog_text = <<>>

AttrIdle ==
    /\ at_raw = <<>>
    /\ at_entry = <<>>
    /\ at_pr = NoPR
    /\ at_count = 0

NoResult == [valid |-> FALSE, message |-> <<>>, categories |-> None]

ValIdle ==
    /\ val_body = <<>>
    /\ val_pc = "idle"
    /\ result = NoResult

CleanIdle ==
    /\ cl_content = <<>>
    /\ cl_once = <<>>
    /\ cl_twice = <<>>
    /\ cl_opt_out = FALSE
    /\ cl_pc = "idle"

ParseIdle ==
    /\ notes = <<>>
    /\ lines = <<>>
    /\ lineno = 0
    /\ current_category = None
    /\ categories = EmptyDict

ClogIdle ==
    /\ changelog = <<>>
    /\ ncalls = 0
    /\ last_run = NoCall
    /\ exit_code = 0
    /\ init_descending = FALSE

-----------------------------------------------------------------------------
(* parse_release_notes as a loop over the lines of the cleaned content *)

ParseInit ==
    /\ ClogIdle /\ FmtIdle /\ AttrIdle /\ ValIdle /\ CleanIdle
    /\ notes \in TextsOf(ParseFragments, MaxLines)
    /\ lines = Split(clean_content(notes), NL)
    /\ lineno = 1
    /\ current_category = ParseStart.cur
    /\ categories = ParseStart.dict

ParseAdvance ==
    LET st == ParseLine([cur |-> current_category, dict |-> categories], lines[lineno])
    IN  /\ current_category' = st.cur
        /\ categories' = st.dict
        /\ lineno' = lineno + 1
        /\ UNCHANGED <<notes, lines>>
        /\ UNCHANGED <<clogVars, fmtVars, attrVars, valVars, cleanVars>>

ParseHeading ==
    /\ lineno >= 1 /\ lineno <= Len(lines)
    /\ IsCategoryHeading(Strip(lines[lineno]))
    /\ ParseAdvance

ParseListItem ==
    /\ lineno >= 1 /\ lineno <= Len(lines)
    /\ ~IsCategoryHeading(Strip(lines[lineno]))
    /\ IsListItem(Strip(lines[lineno]))
    /\ ParseAdvance

ParseOtherLine ==
    /\ lineno >= 1 /\ lineno <= Len(lines)
    /\ ~IsCategoryHeading(Strip(lines[lineno]))
    /\ ~IsListItem(Strip(lines[lineno]))
    /\ ParseAdvance

ParseNext == ParseHeading \/ ParseListItem \/ ParseOtherLine

SpecParse == ParseInit /\ [][ParseNext]_vars

-----------------------------------------------------------------------------
(* one call of validate_release_notes *)

ValInit ==
    /\ ParseIdle /\ ClogIdle /\ FmtIdle /\ AttrIdle /\ CleanIdle
    /\ val_body \in ValidateBodies
    /\ val_pc = "start"
    /\ result = NoResult

Return(r) ==
    /\ val_pc = "start"
    /\ r = validate_release_notes(val_body)
    /\ result' = r
    /\ val_pc' = "done"
    /\ UNCHANGED val_body
    /\ UNCHANGED <<parseVars, clogVars, fmtVars, attrVars, cleanVars>>

ValidateNotFound ==
    /\ extract_release_notes_section(val_body) = None
    /\ Return([valid |-> FALSE, message |-> MSG_NOT_FOUND, categories |-> None])

ValidateOptOut ==
    /\ extract_release_notes_section(val_body) # None
    /\ Return([valid |-> TRUE, message |-> MSG_OPT_OUT, categories |-> None])

ValidateNoCategory ==
    /\ extract_release_notes_section(val_body) # None
    /\ Return([valid |-> FALSE, message |-> MSG_NO_CATEGORY, categories |-> None])

ValidateEmptyCategory ==
    /\ extract_release_notes_section(val_body) # None
    /\ validate_release_notes(val_body).message \notin {MSG_NOT_FOUND, MSG_OPT_OUT, MSG_NO_CATEGORY, MSG_VALID}
    /\ Return(validate_release_notes(val_body))

ValidateOk ==
    /\ extract_release_notes_section(val_body) # None
    /\ validate_release_notes(val_body).message = MSG_VALID
    /\ Return(validate_release_notes(val_body))

ValNext ==
    ValidateNotFound \/ ValidateOptOut \/ ValidateNoCategory \/ ValidateEmptyCategory
        \/ ValidateOk

SpecValidate == ValInit /\ [][ValNext]_vars

-----------------------------------------------------------------------------
(* clean_content, applied to a content and to its own result, and is_opt_out *)

CleanInit ==
    /\ ParseIdle /\ ClogIdle /\ FmtIdle /\ AttrIdle /\ ValIdle
    /\ cl_content \in CleanContents
    /\ cl_once = <<>>
    /\ cl_twice = <<>>
    /\ cl_opt_out = FALSE
    /\ cl_pc = "start"

CleanOnce ==
    /\ cl_pc = "start"
    /\ cl_once' = clean_content(cl_content)
    /\ cl_pc' = "cleaned"
    /\ UNCHANGED <<cl_content, cl_twice, cl_opt_out>>
    /\ UNCHANGED <<parseVars, clogVars, fmtVars, attrVars, valVars>>

CleanAgain ==
    /\ cl_pc = "cleaned"
    /\ cl_twice' = clean_content(cl_once)
    /\ cl_pc' = "recleaned"
    /\ UNCHANGED <<cl_content, cl_once, cl_opt_out>>
    /\ UNCHANGED <<parseVars, clogVars, fmtVars, attrVars, valVars>>

OptOutTrue ==
    /\ cl_pc = "start"
    /\ is_opt_out(cl_content)
    /\ cl_opt_out' = TRUE
    /\ cl_pc' = "opted"
    /\ UNCHANGED <<cl_content, cl_once, cl_twice>>
    /\ UNCHANGED <<parseVars, clogVars, fmtVars, attrVars, valVars>>

OptOutFalse ==
    /\ cl_pc = "start"
    /\ ~is_opt_out(cl_content)
    /\ cl_opt_out' = FALSE
    /\ cl_pc' = "opted"
    /\ UNCHANGED <<cl_content, cl_once, cl_twice>>
    /\ UNCHANGED <<parseVars, clogVars, fmtVars, attrVars, valVars>>

CleanNext == CleanOnce \/ CleanAgain \/ OptOutTrue \/ OptOutFalse

SpecClean == CleanInit /\ [][CleanNext]_vars

-----------------------------------------------------------------------------
(* format_changelog_from_prs as a loop over the PR records of the file *)

FmtInit ==
    /\ ParseIdle /\ ClogIdle /\ AttrIdle /\ ValIdle /\ CleanIdle
    /\ prs = <<>>
    /\ all_categories = EmptyDict
    /\ fmt_pc = "collect"
    /\ changelog_text = <<>>

\* a record without a Release Notes section, or opted out: continue
FormatSkipPR ==
    /\ fmt_pc = "collect"
    /\ Len(prs) < MaxPRs
    /\ \E pr \in FormatPRs :
        /\ IsSkipped(pr)
        /\ prs' = Append(prs, pr)
        /\ all_categories' = CollectPR(all_categories, pr)
    /\ UNCHANGED <<fmt_pc, changelog_text>>
    /\ UNCHANGED <<parseVars, clogVars, attrVars, valVars, cleanVars>>

FormatCollectPR ==
    /\ fmt_pc = "collect"
    /\ Len(prs) < MaxPRs
    /\ \E pr \in FormatPRs :
        /\ ~IsSkipped(pr)
        /\ prs' = Append(prs, pr)
        /\ all_categories' = CollectPR(all_categories, pr)
    /\ UNCHANGED <<fmt_pc, changelog_text>>
    /\ UNCHANGED <<parseVars, clogVars, attrVars, valVars, cleanVars>>

\* the end of the PR list: render and return
FormatRender ==
    /\ fmt_pc = "collect"
    /\ fmt_pc' = "done"
    /\ changelog_text' = Render(all_categories)
    /\ UNCHANGED <<prs, all_categories>>
    /\ UNCHANGED <<parseVars, clogVars, attrVars, valVars, cleanVars>>

FmtNext == FormatSkipPR \/ FormatCollectPR \/ FormatRender

SpecFormat == FmtInit /\ [][FmtNext]_vars

-----------------------------------------------------------------------------
(* the attribution step applied to its own result *)

AttrInit ==
    /\ ParseIdle /\ ClogIdle /\ FmtIdle /\ ValIdle /\ CleanIdle
    /\ at_raw \in AttrEntries
    /\ at_entry = at_raw
    /\ at_pr \in AttrPRs
    /\ at_count = 0

\* neither "#<number>" nor the URL is in the entry: the suffix is appended
AttributeAppend ==
    /\ at_count < MaxApply
    /\ FormatEntry(at_entry, at_pr) # at_entry
    /\ at_entry' = FormatEntry(at_entry, at_pr)
    /\ at_count' = at_count + 1
    /\ UNCHANGED <<at_raw, at_pr>>
    /\ UNCHANGED <<parseVars, clogVars, fmtVars, valVars, cleanVars>>

\* else: formatted_entry = entry
AttributeKeep ==
    /\ at_count < MaxApply
    /\ FormatEntry(at_entry, at_pr) = at_entry
    /\ at_entry' = FormatEntry(at_entry, at_pr)
    /\ at_count' = at_count + 1
    /\ UNCHANGED <<at_raw, at_pr>>
    /\ UNCHANGED <<parseVars, clogVars, fmtVars, valVars, cleanVars>>

AttrNext == AttributeAppend \/ AttributeKeep

SpecAttribute == AttrInit /\ [][AttrNext]_vars

-----------------------------------------------------------------------------
(* runs of update-changelog.py on one CHANGELOG.md *)

\* the start offset (0-based) just after the first line that is the
\* Unreleased heading; None when no line is
RECURSIVE UnreleasedLineEnd(_, _, _)
UnreleasedLineEnd(ls, k, offset) ==
    IF k > Len(ls) THEN None
    ELSE IF Strip(ls[k]) = UNRELEASED
         THEN Some(IF k = Len(ls) THEN offset + Len(ls[k]) ELSE offset + Len(ls[k]) + 1)
    ELSE UnreleasedLineEnd(ls, k + 1, offset + Len(ls[k]) + 1)

HeadingLineEnd(doc) == UnreleasedLineEnd(Split(doc, NL), 1, 0)

\* the version headers of doc below the Unreleased heading line (all of
\* them when there is no such line), top to bottom
HeadersBelow(doc) ==
    LET from == IF HeadingLineEnd(doc) = None THEN 0 ELSE HeadingLineEnd(doc)[1]
    IN  SelectSeq(VersionMatches(doc, 1), LAMBDA m : m.start >= from)

VersionOfMatch(m) == Version(LStripV(m.group))

StrictlyDescending(ms) ==
    /\ \A k \in 1..Len(ms) : VersionOfMatch(ms[k]) # None
    /\ \A k \in 1..(Len(ms) - 1) :
           ReleaseLess(VersionOfMatch(ms[k + 1])[1], VersionOfMatch(ms[k])[1])

ClogInit ==
    /\ ParseIdle /\ FmtIdle /\ AttrIdle /\ ValIdle /\ CleanIdle
    /\ changelog \in InitDocs
    /\ ncalls = 0
    /\ last_run = NoCall
    /\ exit_code = 0
    /\ init_descending = StrictlyDescending(HeadersBelow(changelog))

Run(version, r) ==
        /\ changelog' = r.content
        /\ ncalls' = ncalls + 1
        /\ last_run' = [version |-> version, before |-> changelog, raised |-> r.raised,
                    pos |-> r.pos, header_at |-> r.header_at, anchor |-> r.anchor]
        /\ exit_code' = main_exit(r)
        /\ UNCHANGED init_descending
        /\ UNCHANGED <<parseVars, fmtVars, attrVars, valVars, cleanVars>>

\* insert_position was set in the loop
UpdateInsertBefore ==
    /\ ncalls < MaxUpdates
    /\ \E version \in NewVersions :
        LET r == update_changelog(changelog, version, DATE, ENTRIES)
        IN  r.anchor # 0 /\ Run(version, r)

\* elif unreleased_match
UpdateAfterUnreleased ==
    /\ ncalls < MaxUpdates
    /\ \E version \in NewVersions :
        LET r == update_changelog(changelog, version, DATE, ENTRIES)
        IN  ~r.raised /\ r.anchor = 0 /\ UnreleasedMatch(changelog) # None /\ Run(version, r)

\* else
UpdateAtBeginning ==
    /\ ncalls < MaxUpdates
    /\ \E version \in NewVersions :
        LET r == update_changelog(changelog, version, DATE, ENTRIES)
        IN  ~r.raised /\ r.anchor = 0 /\ UnreleasedMatch(changelog) = None /\ Run(version, r)

\* Version(version.lstrip('v')) raised InvalidVersion
UpdateRaises ==
    /\ ncalls < MaxUpdates
    /\ \E version \in NewVersions :
        LET r == update_changelog(changelog, version, DATE, ENTRIES)
        IN  r.raised /\ Run(version, r)

ClogNext == UpdateInsertBefore \/ UpdateAfterUnreleased \/ UpdateAtBeginning \/ UpdateRaises

SpecChangelog == ClogInit /\ [][ClogNext]_vars

-----------------------------------------------------------------------------
(* C1 *)

\* the text of the most recent level-3 heading among lines 1..j, None when
\* there is none
RECURSIVE LastHeading(_, _)
LastHeading(ls, j) ==
    IF j = 0 THEN None
    ELSE IF IsCategoryHeading(Strip(ls[j])) THEN Some(HeadingText(Strip(ls[j])))
    ELSE LastHeading(ls, j - 1)

IsEntryLine(line) ==
    ~IsCategoryHeading(line) /\ IsListItem(line) /\ Strip(Tail(line)) # <<>>

\* the entries of the bullets among lines 1..n whose most recent preceding
\* heading is exactly the category c
RECURSIVE BulletsUnder(_, _, _)
BulletsUnder(ls, n, c) ==
    IF n = 0 THEN <<>>
    ELSE LET line == Strip(ls[n])
             prev == BulletsUnder(ls, n - 1, c)
         IN  IF IsEntryLine(line) /\ LastHeading(ls, n - 1) = Some(<<c>>)
             THEN Append(prev, Strip(Tail(line)))
             ELSE prev

\* C1: at every point of the scan the list of category c holds exactly the
\* bullets whose most recent preceding level-3 heading is the valid name c,
\* in order: a bullet under an invalid heading, or under no heading, is in
\* no category, and in particular not in the valid category before it.
C1_BulletsOnlyUnderOwnHeading ==
    lineno >= 1 =>
        \A c \in ValidSet :
            categories.vals[c] = BulletsUnder(lines, lineno - 1, c)

\* a bullet under an invalid heading has been scanned after a valid category
\* had collected an entry
C1_Witness ==
    /\ lineno >= 1
    /\ \E j \in 1..(lineno - 1) :
        /\ IsEntryLine(Strip(lines[j]))
        /\ LastHeading(lines, j - 1) # None
        /\ ~IsValidCategory(LastHeading(lines, j - 1)[1])
        /\ \E c \in ValidSet : categories.vals[c] # <<>>

-----------------------------------------------------------------------------
(* C2 - C6 *)

NewVersionOf(run) == Version(LStripV(run.version))

\* the indices of the version headers of doc at or after the search start
\* whose version parses and is strictly below nv
LowerHeaders(doc, nv) ==
    LET ms == VersionMatches(doc, 1)
    IN  {k \in 1..Len(ms) :
            /\ ms[k].start >= SearchStart(doc)
            /\ VersionOfMatch(ms[k]) # None
            /\ ReleaseLess(VersionOfMatch(ms[k])[1], nv)}

\* C2: a run with a parseable new version does not raise, whatever the
\* existing headers are; when some header at or after the search start has
\* a parseable version strictly below the new one, the new section is
\* spliced in exactly at the start of the first such header; and the header
\* the scan stops at is never an unparseable one, nor one whose version is
\* equal to or above the new one, nor one before the search start.
C2_InsertedBeforeFirstLowerHeader ==
    (ncalls > 0 /\ NewVersionOf(last_run) # None) =>
        LET ms    == VersionMatches(last_run.before, 1)
            lower == LowerHeaders(last_run.before, NewVersionOf(last_run)[1])
        IN  /\ ~last_run.raised
            /\ lower # {} =>
                 LET first == CHOOSE k \in lower : \A j \in lower : k <= j
                 IN  /\ last_run.anchor = first
                     /\ last_run.pos = ms[first].start
                     /\ changelog = Splice(last_run.before, ms[first].start,
                                           NewSection(last_run.version, DATE, ENTRIES))
            /\ last_run.anchor # 0 => last_run.anchor \in lower

\* the scan passed over an unparseable header and over a higher version and
\* stopped at a later, lower one
C2_Witness ==
    /\ ncalls > 0
    /\ last_run.anchor >= 3
    /\ LET ms == VersionMatches(last_run.before, 1)
       IN  /\ \E j \in 1..(last_run.anchor - 1) :
                  ms[j].start >= SearchStart(last_run.before) /\ VersionOfMatch(ms[j]) = None
           /\ \E j \in 1..(last_run.anchor - 1) :
                  /\ ms[j].start >= SearchStart(last_run.before)
                  /\ VersionOfMatch(ms[j]) # None
                  /\ ReleaseLess(NewVersionOf(last_run)[1], VersionOfMatch(ms[j])[1])

\* C3: in a file with an Unreleased heading followed by version sections, a
\* new version lower than an existing one lands after that higher version's
\* header; and when no existing header is lower than the new version, the
\* new section lands at the end of the document.
C3_LowerVersionPlacedBelowHigher ==
    (/\ ncalls > 0
     /\ NewVersionOf(last_run) # None
     /\ UnreleasedMatch(last_run.before) # None
     /\ HeadersBelow(last_run.before) # <<>>) =>
        LET ms == HeadersBelow(last_run.before)
            nv == NewVersionOf(last_run)[1]
        IN  /\ \A k \in 1..Len(ms) :
                   (VersionOfMatch(ms[k]) # None /\ ReleaseLess(nv, VersionOfMatch(ms[k])[1]))
                       => last_run.header_at > ms[k].start
            /\ LowerHeaders(last_run.before, nv) = {} => last_run.pos = Len(last_run.before)

AllDistinctParseable(ms) ==
    /\ \A k \in 1..Len(ms) : VersionOfMatch(ms[k]) # None
    /\ \A j, k \in 1..Len(ms) : j # k => VersionOfMatch(ms[j]) # VersionOfMatch(ms[k])

\* C4: starting from a file whose version headers below Unreleased descend
\* strictly, after runs with pairwise distinct parseable versions the version
\* headers below Unreleased still descend strictly.
C4_HeadersStayDescending ==
    (init_descending /\ AllDistinctParseable(VersionMatches(changelog, 1)))
        => StrictlyDescending(HeadersBelow(changelog))

\* C5: in a file with a line that is the Unreleased heading, the new section
\* is spliced in at or after the end of that line, and the header the scan
\* stops at is never one above it.
C5_NeverAboveUnreleased ==
    (/\ ncalls > 0
     /\ NewVersionOf(last_run) # None
     /\ HeadingLineEnd(last_run.before) # None) =>
        /\ last_run.pos >= HeadingLineEnd(last_run.before)[1]
        /\ last_run.anchor # 0 =>
               VersionMatches(last_run.before, 1)[last_run.anchor].start
                   >= HeadingLineEnd(last_run.before)[1]

\* C6: a run whose new version does not parse fails (exit status 1) and
\* leaves the file as it was.
C6_UnparseableNewVersionFails ==
    (ncalls > 0 /\ NewVersionOf(last_run) = None) =>
        /\ last_run.raised
        /\ exit_code = 1
        /\ changelog = last_run.before

\* a run with an unparseable version on a file an earlier run had written to
C6_Witness ==
    /\ ncalls = 2
    /\ NewVersionOf(last_run) = None
    /\ exit_code = 1
    /\ Len(VersionMatches(changelog, 1)) > Len(VersionMatches(TITLE, 1))
    /\ UnreleasedMatch(changelog) # None

-----------------------------------------------------------------------------
(* C7 - C9 *)

\* what parse_release_notes gives for a PR record the aggregator keeps
NotesOf(pr) ==
    IF IsSkipped(pr) THEN EmptyDict
    ELSE parse_release_notes(extract_release_notes_section(pr.body)[1])

\* the entry text names the PR: it holds "#<number>" or the PR's URL
Mentions(text, pr) == Contains(text, NumberToken(pr)) \/ Contains(text, pr.url)

\* list holds two different lines that are the entry e behind prefix, one
\* naming p1 and one naming p2
TwoAttributedLines(list, prefix, e, p1, p2) ==
    \E a, b \in 1..Len(list) :
        /\ list[a] # list[b]
        /\ StartsWithAt(list[a], 1, prefix \o e) /\ Mentions(list[a], p1)
        /\ StartsWithAt(list[b], 1, prefix \o e) /\ Mentions(list[b], p2)

BothKept(c, e, p1, p2) ==
    /\ TwoAttributedLines(all_categories.vals[c], <<>>, e, p1, p2)
    /\ fmt_pc = "done" =>
           TwoAttributedLines(Split(changelog_text, NL), <<"-", " ">>, e, p1, p2)

\* the same raw entry e under category c in the notes of the i-th and j-th
\* record, which have different PR numbers
SharedEntry(i, j, c, e) ==
    /\ i < j
    /\ prs[i].number # prs[j].number
    /\ InList(NotesOf(prs[i]).vals[c], e)
    /\ InList(NotesOf(prs[j]).vals[c], e)

\* the entries of list a that are also in list b
Common(a, b) == {a[k] : k \in {k \in 1..Len(a) : InList(b, a[k])}}

Occurrences(s, t) == Cardinality({i \in 1..Len(s) : StartsWithAt(s, i, t)})

\* C8: however often the attribution step is applied to an entry of a PR,
\* the result is that of one application; the suffix is there only if the
\* raw text held neither "#<number>" nor the PR URL; and the result carries
\* the PR's attribution twice only if the raw text already did.
C8_AttributionIdempotent ==
    at_count >= 1 =>
        /\ at_entry = FormatEntry(at_raw, at_pr)
        /\ at_entry # at_raw =>
               /\ at_entry = at_raw \o Attribution(at_pr)
               /\ ~Contains(at_raw, NumberToken(at_pr))
               /\ ~Contains(at_raw, at_pr.url)
        /\ \/ Occurrences(at_entry, Attribution(at_pr)) <= 1
           \/ Occurrences(at_entry, Attribution(at_pr)) = Occurrences(at_raw, Attribution(at_pr))

\* the step has run on its own output: appended once, kept the second time
C8_Witness ==
    /\ at_count = 2
    /\ at_entry = at_raw \o Attribution(at_pr)

CanonicalOrder == <<"Added", "Changed", "Deprecated", "Removed", "Fixed", "Security">>

\* the category names of the level-3 heading lines of text, top to bottom
HeadingNames(text) ==
    LET hs == SelectSeq(Split(text, NL), IsCategoryHeading)
    IN  [k \in 1..Len(hs) |-> HeadingText(hs[k])]

\* the categories some kept record has an entry for, in canonical order
CategoriesWithEntries ==
    SelectSeq(CanonicalOrder,
              LAMBDA c : \E i \in 1..Len(prs) : NotesOf(prs[i]).vals[c] # <<>>)

\* C9: the headings of the output are the categories that have an entry, in
\* the order Added, Changed, Deprecated, Removed, Fixed, Security whatever
\* the order of the records and of their headings; a category without entry
\* has no heading; without any entry the output is the empty string.
C9_FixedCategoryOrder ==
    fmt_pc = "done" =>
        /\ HeadingNames(changelog_text) =
               [k \in 1..Len(CategoriesWithEntries) |-> <<CategoriesWithEntries[k]>>]
        /\ CategoriesWithEntries = <<>> => changelog_text = <<>>

\* Fixed was collected before Added, and Added is rendered first
C9_Witness ==
    /\ fmt_pc = "done"
    /\ all_categories.keys = <<"Fixed", "Added">>
    /\ HeadingNames(changelog_text) = <<<<"Added">>, <<"Fixed">>>>

-----------------------------------------------------------------------------
(* C10 *)

\* the valid category names that head a level-3 heading among lines 1..n, in
\* the order they first appear
RECURSIVE FirstSeen(_, _)
FirstSeen(ls, n) ==
    IF n = 0 THEN <<>>
    ELSE LET prev == FirstSeen(ls, n - 1)
             line == Strip(ls[n])
         IN  IF /\ IsCategoryHeading(line)
                /\ IsValidCategory(HeadingText(line))
                /\ ~InList(prev, HeadingText(line)[1])
             THEN Append(prev, HeadingText(line)[1])
             ELSE prev

\* the valid categories of the section that have a heading and no entry
\* beneath any of their headings
EmptyNames(section) ==
    LET ls == Split(clean_content(section), NL)
    IN  SelectSeq(FirstSeen(ls, Len(ls)), LAMBDA c : BulletsUnder(ls, Len(ls), c) = <<>>)

PopulatedNames(section) ==
    LET ls == Split(clean_content(section), NL)
    IN  SelectSeq(FirstSeen(ls, Len(ls)), LAMBDA c : BulletsUnder(ls, Len(ls), c) # <<>>)

\* C10: for a body whose Release Notes section is no opt-out and in which
\* some valid category has a heading but no entry beneath it (under any of
\* its headings), the result is invalid, has no category mapping, and its
\* message is "Categories <every such category, comma-joined> have no
\* entries", also when other categories of the section have entries.
C10_EmptyCategoriesNamed ==
    (/\ val_pc = "done"
     /\ extract_release_notes_section(val_body) # None) =>
        LET section == extract_release_notes_section(val_body)[1]
        IN  (~is_opt_out(section) /\ EmptyNames(section) # <<>>) =>
                /\ result.valid = FALSE
                /\ result.categories = None
                /\ result.message =
                       <<"Categories", " ">>
                           \o Join([k \in 1..Len(EmptyNames(section)) |->
                                       <<EmptyNames(section)[k]>>], <<",", " ">>)
                           \o <<" ", "have no entries">>

\* the call returned for a section with an empty and a populated category
C10_Witness ==
    /\ val_pc = "done"
    /\ extract_release_notes_section(val_body) # None
    /\ EmptyNames(extract_release_notes_section(val_body)[1]) # <<>>
    /\ PopulatedNames(extract_release_notes_section(val_body)[1]) # <<>>
    /\ result.valid = FALSE

-----------------------------------------------------------------------------
(* C11 *)

Spaces(n) == [k \in 1..n |-> " "]

\* the line is a level-2 Release Notes heading, in any letter case
IsReleaseNotesHeading(line) ==
    \E a, b \in 1..Len(line) : \E r \in RELEASE_WORDS, n \in NOTES_WORDS :
        RStrip(line) = <<"#", "#">> \o Spaces(a) \o <<r>> \o Spaces(b) \o <<n>>

\* the index of the first Release Notes heading among the lines, 0 if none
FirstHeadingLine(ls) ==
    LET hs == {k \in 1..Len(ls) : IsReleaseNotesHeading(ls[k])}
    IN  IF hs = {} THEN 0 ELSE CHOOSE k \in hs : \A j \in hs : k <= j

\* the index of the first line after line k that starts with "## ", and
\* Len(ls) + 1 if there is none
NextLevel2Line(ls, k) ==
    LET hs == {m \in (k + 1)..Len(ls) : StartsWithAt(ls[m], 1, <<"#", "#", " ">>)}
    IN  IF hs = {} THEN Len(ls) + 1 ELSE CHOOSE m \in hs : \A j \in hs : m <= j

\* the lines between the first Release Notes heading and the next level-2
\* heading (or the end), as one text without surrounding whitespace
TextBelowHeading(body) ==
    LET ls == Split(body, NL)
        k  == FirstHeadingLine(ls)
        m  == NextLevel2Line(ls, k)
    IN  Strip(Join(SubSeq(ls, k + 1, m - 1), <<NL>>))

HasHeadingLine(body) == FirstHeadingLine(Split(body, NL)) # 0

\* C11: a body without a Release Notes heading line gives absence and the
\* validator's "not found" message; a body with such a line gives the
\* (possibly empty) text between the first such line and the next level-2
\* heading or the end of the body.
C11_AbsentExactlyWithoutHeading ==
    val_pc = "done" =>
        IF HasHeadingLine(val_body)
        THEN extract_release_notes_section(val_body) = Some(TextBelowHeading(val_body))
        ELSE /\ extract_release_notes_section(val_body) = None
             /\ result.message = MSG_NOT_FOUND

-----------------------------------------------------------------------------
(* C12 *)

\* offset q of the body is the start of a line that starts with "## "
Level2LineAt(body, q) == IsLineStart(body, q) /\ StartsWithAt(body, q, <<"#", "#", " ">>)

\* the offsets that follow a Notes word and the whitespace after it
AfterHeading(body) ==
    {i \in 2..(Len(body) + 1) :
        \E n \in 1..(i - 2) :
            /\ body[n] \in NOTES_WORDS
            /\ \A w \in (n + 1)..(i - 1) : body[w] \in WS}

\* section is, up to surrounding whitespace, a stretch of the body that
\* follows the heading, holds no start of a line starting with "## ", and
\* reaches the end of the body or the start of a line starting with "##"
EndsBeforeNextLevel2Line(body, section) ==
    \E a \in AfterHeading(body) : \E b \in (a - 1)..Len(body) :
        /\ section = Strip(SubSeq(body, a, b))
        /\ \A q \in a..b : ~Level2LineAt(body, q)
        /\ b = Len(body) \/ (IsLineStart(body, b + 1) /\ StartsWithAt(body, b + 1, <<"#", "#">>))

NoLevel2LineIn(text) ==
    \A k \in 1..Len(Split(text, NL)) : ~StartsWithAt(Split(text, NL)[k], 1, <<"#", "#", " ">>)

-----------------------------------------------------------------------------
(* C13 *)

\* C13: cleaning the cleaned content gives the cleaned content again, for
\* every content, also when taking a comment out leaves a comment behind.
C13_CleanContentIdempotent ==
    cl_pc = "recleaned" => cl_twice = cl_once

-----------------------------------------------------------------------------
(* C14 *)

\* some line of the text is a heading or a bullet
HasHeadingOrBullet(text) ==
    \E k \in 1..Len(Split(text, NL)) :
        \/ IsCategoryHeading(Strip(Split(text, NL)[k]))
        \/ IsListItem(Strip(Split(text, NL)[k]))

\* C14: is_opt_out is true exactly when the whole cleaned content is the
\* word NONE in some letter case; it is false when the cleaned content
\* holds the word among other text, or holds a heading or a bullet.
C14_OptOutIffWholeContentIsNone ==
    cl_pc = "opted" =>
        LET cleaned == clean_content(cl_content)
        IN  /\ cl_opt_out <=> (Len(cleaned) = 1 /\ cleaned[1] \in {"NONE", "none", "NoNe"})
            /\ (Len(cleaned) > 1 /\ \E i \in 1..Len(cleaned) : cleaned[i] \in {"NONE", "none"})
                   => ~cl_opt_out
            /\ HasHeadingOrBullet(cleaned) => ~cl_opt_out

\* a comment, whitespace and the word in lower case: an opt-out
C14_Witness ==
    /\ cl_pc = "opted"
    /\ cl_content = C_x \o <<" ">> \o <<"none">> \o <<NL>>
    /\ cl_opt_out

-----------------------------------------------------------------------------
(* C15 *)

SixCategories == {"Added", "Changed", "Deprecated", "Removed", "Fixed", "Security"}

\* an entry of a mapping: not empty, no whitespace at either end
WellFormedEntry(e) == e # <<>> /\ e[1] \notin {" ", NL} /\ e[Len(e)] \notin {" ", NL}

\* C15: a mapping comes only with validity true and the message "Release
\* notes are valid"; every other outcome has no mapping.  Every key of a
\* returned mapping is one of the six category names and has at least one
\* entry, and every entry is non-empty without leading or trailing
\* whitespace.
C15_MappingOnlyWhenValid ==
    val_pc = "done" =>
        /\ result.categories # None => (result.valid /\ result.message = MSG_VALID)
        /\ (~result.valid \/ result.message # MSG_VALID) => result.categories = None
        /\ result.categories # None =>
               LET m == result.categories[1]
               IN  /\ m.keys # <<>>
                   /\ \A k \in 1..Len(m.keys) :
                          /\ m.keys[k] \in SixCategories
                          /\ m.vals[m.keys[k]] # <<>>
                          /\ \A j \in 1..Len(m.vals[m.keys[k]]) :
                                 WellFormedEntry(m.vals[m.keys[k]][j])
                   /\ \A c \in SixCategories :
                          m.vals[c] # <<>> => \E k \in 1..Len(m.keys) : m.keys[k] = c

\* a mapping was returned for a section that holds an empty bullet and a
\* bullet with whitespace around its text
C15_Witness ==
    /\ val_pc = "done"
    /\ result.categories # None
    /\ Contains(val_body, <<NL>> \o B_empty \o <<NL>>)
    /\ Contains(val_body, <<NL>> \o B_spaced \o <<NL>>)

-----------------------------------------------------------------------------
(* C16 *)

\* the formatted strings of the first n records for category c, in PR order
\* and then body order
RECURSIVE FormattedStream(_, _)
FormattedStream(n, c) ==
    IF n = 0 THEN <<>>
    ELSE FormattedStream(n - 1, c)
             \o [k \in 1..Len(NotesOf(prs[n]).vals[c]) |->
                    FormatEntry(NotesOf(prs[n]).vals[c][k], prs[n])]

\* the first occurrence of every string among the first n of seq, in order
RECURSIVE FirstOccurrences(_, _)
FirstOccurrences(seq, n) ==
    IF n = 0 THEN <<>>
    ELSE IF \E j \in 1..(n - 1) : seq[j] = seq[n]
         THEN FirstOccurrences(seq, n - 1)
         ELSE Append(FirstOccurrences(seq, n - 1), seq[n])

\* C16: after any sequence of PR records, no category's list holds the same
\* formatted string twice, whether the repetition is within one PR or across
\* PRs, and the list is the first occurrences of the formatted strings in PR
\* order, then body order.
C16_NoIdenticalFormattedStrings ==
    \A c \in ValidSet :
        LET list   == all_categories.vals[c]
            stream == FormattedStream(Len(prs), c)
        IN  /\ \A a, b \in 1..Len(list) : a # b => list[a] # list[b]
            /\ list = FirstOccurrences(stream, Len(stream))

\* two records gave three formatted strings for Fixed, one of them a
\* repetition from the later record, and two lines were collected
C16_Witness ==
    /\ Len(prs) = 2
    /\ prs[1].number # prs[2].number
    /\ Len(FormattedStream(2, "Fixed")) = 3
    /\ Len(all_categories.vals["Fixed"]) = 2
    /\ all_categories.vals["Fixed"][1] = FormattedStream(2, "Fixed")[1]

====
